---- MODULE Spec2Model ----
(***************************************************************************)
(* A model of irondome.py: the per-file baseline store kept by             *)
(* FileModEventHandler, the orchestration in IronDome.run and the three    *)
(* resource probes.                                                        *)
(*                                                                         *)
(* Entropies are fixed-point numbers in units of 1/10000 (0.01 is 100).    *)
(* A file's bytes are abstracted to what the two probes of the program     *)
(* read from them: whether the file is empty, the normalised Shannon       *)
(* entropy of its bytes and the MIME type its header maps to.  Non-empty   *)
(* contents all have the same length, so a rewrite never changes a         *)
(* non-zero size into another non-zero size.                               *)
(***************************************************************************)
EXTENDS Integers, Sequences, FiniteSets, TLC

\* ---------------------------------------------------------------- bounds
\* the block-device read-time counter takes the values 0, 50, .., 50*MaxTicks
MaxTicks == 4
\* the seconds since the last CPU warning are counted up to MaxClock
MaxClock == 12

\* ------------------------------------------------------- program constants
ENTROPY_LIMIT == 100
UNKNOWN == "<unknown>"
CPU_LIMIT == 10
MEM_LIMIT == 100
DISK_FACTOR == 100
sleep_time == 1
CPU_WINDOW == 1
CPU_COOLDOWN == 10

\* --------------------------------------------------------------- the disk
\* the directories of the disk and the files that may appear in them
Dirs == {"/w", "/w/sub"}
Paths == {"/w/f.txt", "/w/sub/f.txt", "/w/g.log"}

DirName(p) == IF p = "/w/sub/f.txt" THEN "/w/sub" ELSE "/w"
BaseName(p) == IF p = "/w/g.log" THEN "g.log" ELSE "f.txt"
Ext(name) == IF name = "g.log" THEN "log" ELSE "txt"

\* what the file at a path is at one instant
Absent == [exists |-> FALSE, readable |-> FALSE, size |-> 0, entropy |-> 0, mime |-> UNKNOWN]
Locked == [exists |-> TRUE, readable |-> FALSE, size |-> 1, entropy |-> 0, mime |-> UNKNOWN]
Empty == [exists |-> TRUE, readable |-> TRUE, size |-> 0, entropy |-> 0, mime |-> UNKNOWN]
Content(e, m) == [exists |-> TRUE, readable |-> TRUE, size |-> 1, entropy |-> e, mime |-> m]
Contents ==
    {Empty, Content(1000, UNKNOWN), Content(1100, UNKNOWN), Content(1101, UNKNOWN),
     Content(1100, "image/png")}
FileStates == {Absent, Locked} \cup Contents

\* The file as the successive system calls of one handler see it:
\*   [1] os.path.exists in __update_info     [2] os.path.exists in file_entropy
\*   [3] os.stat   [4] open and read   [5] the open of filetype.guess
Stable(S) == {[i \in 1..5 |-> a] : a \in S}

\* The environment changes the file at most once while a handler runs: the
\* file is a before the call k+1 and b from then on.
Race(a, b, k) == [i \in 1..5 |-> IF i <= k THEN a ELSE b]

\* a file that is deleted, truncated or first written while a handler reads it
Races ==
    {Race(Content(1000, UNKNOWN), Absent, k) : k \in 1..4}
    \cup {Race(Content(1000, UNKNOWN), Empty, k) : k \in 3..4}
    \cup {Race(Empty, Content(1000, UNKNOWN), k) : k \in 3..4}

Timelines == Stable(FileStates) \cup Races

\* ------------------------------------------------------------ dictionaries
Keys(d) == DOMAIN d
Set(d, k, v) == [x \in (DOMAIN d) \cup {k} |-> IF x = k THEN v ELSE d[x]]
Del(d, k) == [x \in (DOMAIN d) \ {k} |-> d[x]]
EmptyDict == [x \in {} |-> 0]

FileInfo(e, m) == [entropy |-> e, mime |-> m]
NoInfo == FileInfo(-1, "")

\* ------------------------------------------------------------ file_entropy
RAISED == -1
RAISED_MIME == "!raised"

\* the value of file_entropy(filepath), or RAISED when an exception leaves it
file_entropy(t) ==
    IF ~t[2].exists THEN 0
    ELSE IF ~t[3].exists THEN RAISED                    \* os.stat: FileNotFoundError
    ELSE IF ~t[4].exists \/ ~t[4].readable THEN RAISED  \* open: OSError
    ELSE LET file_size == t[3].size
             read == t[4]
         IN  IF read.size = 0 THEN 0                    \* no byte counted: -sum([])
             ELSE IF file_size = 0 THEN RAISED          \* count / 0
             ELSE read.entropy

\* the value of __get_mime(filepath), or RAISED_MIME when filetype.guess
\* cannot open the file
get_mime(t) ==
    IF ~t[5].exists \/ ~t[5].readable THEN RAISED_MIME
    ELSE t[5].mime

\* ------------------------------------------------------- IronDome.__init__
\* os.path.isdir and os.path.isfile
isdir(p) == p \in Dirs
isfile(p) == p \in Paths

\* the arguments of IronDome(dir_path, patterns): the root the user supplies
\* and the list of extensions
VARIABLE config

\* IronDome("/w", ["txt"])
DefaultConfig == [dir_path |-> "/w", extensions |-> <<"txt">>]

\* a directory or a single file as the root; no extension, one, or two that
\* both match a .txt file
Configs ==
    {[dir_path |-> d, extensions |-> x] :
        d \in {"/w", "/w/f.txt"}, x \in {<<>>, <<"txt">>, <<"txt", "t*">>}}

extensions == config.extensions

\* line 110 and lines 115-116: the parent directory when the root is a file
monitoring_path ==
    IF isfile(config.dir_path) THEN DirName(config.dir_path) ELSE config.dir_path

\* lines 111-117
patterns ==
    IF isfile(config.dir_path) THEN <<BaseName(config.dir_path)>>
    ELSE IF extensions # <<>>
         THEN [i \in DOMAIN extensions |-> "*." \o extensions[i]]
         ELSE <<"*">>

\* line 135: evaluated on the path that lines 115-116 have already replaced
recursive == isdir(monitoring_path)

\* ------------------------------------------------------------ patterns
fnmatch(name, pattern) ==
    IF pattern = "*" THEN TRUE
    ELSE IF pattern = "*.txt" THEN Ext(name) = "txt"
    ELSE IF pattern = "*.log" THEN Ext(name) = "log"
    ELSE IF pattern = "*.t*" THEN Ext(name) = "txt"
    ELSE name = pattern

\* PatternMatchingEventHandler: an event is handed to the handler when one of
\* its paths matches one of the patterns
PathMatches(p) == \E i \in DOMAIN patterns : fnmatch(BaseName(p), patterns[i])

\* a walk that does not leave the top directory
walk_top_only(top) == <<top>>

\* the directories os.walk(top) visits, top first
walk(top) == IF top = "/w" THEN <<"/w", "/w/sub">> ELSE <<top>>

\* the watch of observer.schedule(handler, monitoring_path, recursive) reports
\* the events of the directory itself and, when recursive, of those below it
Watched(p) ==
    IF DirName(p) = monitoring_path THEN TRUE
    ELSE recursive /\ \E i \in DOMAIN walk(monitoring_path) :
                         walk(monitoring_path)[i] = DirName(p)

\* ------------------------------------------------------------ the handlers
\* the outcome of a handler: the store it leaves, the warnings it logged, the
\* baseline it measured, whether one of its system calls failed and whether an
\* exception left it.  No handler has a try statement: a failure always leaves.
Ret(infos, warnings, failed, new) ==
    [infos |-> infos, warnings |-> warnings, failed |-> failed, raised |-> failed,
     new |-> new]

\* a comparison that also warns at the limit
EntropyWarnsGE(old_entropy, new_entropy) ==
    new_entropy - old_entropy >= ENTROPY_LIMIT

EntropyWarns(old_entropy, new_entropy) ==
    new_entropy - old_entropy > ENTROPY_LIMIT

\* a MIME check that is the elif of the entropy check
MimeWarnsElif(old, new_entropy, new_mime) ==
    ~EntropyWarns(old.entropy, new_entropy) /\ new_mime # old.mime

MimeWarns(old, new_entropy, new_mime) ==
    new_mime # old.mime

Warnings(old, new_entropy, new_mime) ==
    (IF EntropyWarns(old.entropy, new_entropy) THEN {"entropy"} ELSE {})
    \cup (IF MimeWarns(old, new_entropy, new_mime) THEN {"mime"} ELSE {})

\* a warning that returns before line 85
ReplaceUnlessWarned(infos, filepath, warnings, new) ==
    IF warnings # {} THEN infos ELSE Set(infos, filepath, new)

Replace(infos, filepath, warnings, new) ==
    Set(infos, filepath, new)

\* an __update_info that starts tracking a path it does not know
StartsTracking(infos, filepath, t) ==
    IF file_entropy(t) = RAISED \/ get_mime(t) = RAISED_MIME
    THEN Ret(infos, {}, FALSE, NoInfo)
    ELSE Ret(Set(infos, filepath, FileInfo(file_entropy(t), get_mime(t))), {}, FALSE,
             NoInfo)

\* __update_info on a path that is not in the store
NotTracked(infos, filepath, t) == Ret(infos, {}, FALSE, NoInfo)

\* an __update_info that keeps the baseline of a file that is gone
update_info_keeps_gone(infos, filepath, t) ==
    IF filepath \notin Keys(infos) THEN NotTracked(infos, filepath, t)
    ELSE IF ~t[1].exists THEN Ret(infos, {}, FALSE, NoInfo)
    ELSE LET new_entropy == file_entropy(t)
             new_mime == get_mime(t)
         IN  IF new_entropy = RAISED \/ new_mime = RAISED_MIME
             THEN Ret(infos, {}, TRUE, NoInfo)
             ELSE LET w == Warnings(infos[filepath], new_entropy, new_mime)
                      new == FileInfo(new_entropy, new_mime)
                  IN  Ret(Replace(infos, filepath, w, new), w, FALSE, new)

update_info(infos, filepath, t) ==
    IF filepath \notin Keys(infos) THEN NotTracked(infos, filepath, t)
    ELSE IF ~t[1].exists THEN Ret(Del(infos, filepath), {}, FALSE, NoInfo)
    ELSE LET new_entropy == file_entropy(t)
             new_mime == get_mime(t)
         IN  IF new_entropy = RAISED \/ new_mime = RAISED_MIME
             THEN Ret(infos, {}, TRUE, NoInfo)
             ELSE LET w == Warnings(infos[filepath], new_entropy, new_mime)
                      new == FileInfo(new_entropy, new_mime)
                  IN  Ret(Replace(infos, filepath, w, new), w, FALSE, new)

on_created(infos, src_path, t) ==
    LET e == file_entropy(t)
        m == get_mime(t)
    IN  IF e = RAISED \/ m = RAISED_MIME
        THEN Ret(infos, {}, TRUE, NoInfo)
        ELSE Ret(Set(infos, src_path, FileInfo(e, m)), {}, FALSE, FileInfo(e, m))

\* an on_closed that forgets the file
on_closed_removes(infos, src_path) == Ret(Del(infos, src_path), {}, FALSE, NoInfo)

on_closed(infos, src_path) == Ret(infos, {}, FALSE, NoInfo)

\* an on_deleted that only logs
on_deleted_logs(infos, src_path) == Ret(infos, {}, FALSE, NoInfo)

on_deleted(infos, src_path) ==
    IF src_path \notin Keys(infos) THEN Ret(infos, {}, FALSE, NoInfo)
    ELSE Ret(Del(infos, src_path), {}, FALSE, NoInfo)

on_modified(infos, src_path, t) == update_info(infos, src_path, t)

\* an on_moved that compares with the baseline dest_path had
on_moved_no_carry(infos, src_path, dest_path, t) ==
    IF src_path \in Keys(infos)
    THEN update_info(Del(infos, src_path), dest_path, t)
    ELSE on_created(infos, dest_path, t)

on_moved(infos, src_path, dest_path, t) ==
    IF src_path \in Keys(infos)
    THEN LET carried == Del(Set(infos, dest_path, infos[src_path]), src_path)
         IN  update_info(carried, dest_path, t)
    ELSE on_created(infos, dest_path, t)

\* ------------------------------------------------------------ the state
VARIABLES
    file_infos,         \* FileModEventHandler.file_infos: path -> FileInfo
    deleted,            \* paths removed by on_deleted and not re-added since
    last,               \* the last event handled and what its handler did
    main_pc,            \* where the thread that called IronDome.run is
    scan_todo,          \* __init_file_infos: the matching files still to measure
    result,             \* __init_file_infos: its local dictionary
    observer,           \* the watchdog observer thread
    cpu_pc, mem_pc, disk_pc,    \* the three probe threads
    last_reading_time,  \* __disk_check: the previous sample
    root_handlers,      \* where the root logger writes: none, stderr or file
    last_log,           \* the last anomaly record logged and where it went
    polls,              \* the last polls of the probes, when they are observed
    scanned,            \* what the initial scan listed and read, when observed
    measured            \* a call of file_entropy: the file it read and its value

vars == <<file_infos, deleted, last, main_pc, scan_todo, result, observer,
          cpu_pc, mem_pc, disk_pc, last_reading_time, root_handlers, last_log,
          polls, config, scanned, measured>>

store_vars == <<file_infos, deleted, last>>
scan_vars == <<scan_todo, result, scanned>>
input_vars == <<config, measured>>
probe_vars == <<cpu_pc, mem_pc, disk_pc, last_reading_time, polls>>
log_vars == <<root_handlers, last_log>>

NoEvent == [kind |-> "none", src |-> "", dest |-> "", before |-> EmptyDict,
            on_disk |-> FALSE, new |-> NoInfo, warnings |-> {}, failed |-> FALSE,
            raised |-> FALSE]
NoLog == [source |-> "none", sink |-> "none"]

\* No poll yet.  cpu_wait: the seconds since the last CPU warning; cpu_gap: the
\* seconds between the last two CPU warnings (0: there were not two); cpu_last:
\* the last CPU sample (0: none) and cpu_logged: whether it logged a warning;
\* disk_prev, disk_new, disk_logged: the last poll of the disk probe.
NoPolls == [on |-> TRUE, cpu_warned |-> FALSE, cpu_wait |-> MaxClock, cpu_gap |-> 0,
            cpu_last |-> 0, cpu_logged |-> FALSE,
            disk_polled |-> FALSE, disk_prev |-> 0, disk_new |-> 0,
            disk_logged |-> FALSE]
Unobserved == [NoPolls EXCEPT !.on = FALSE]

\* the polls are recorded only in the specifications that observe them
Record(p) == IF polls.on THEN p ELSE polls

Clock(n) == IF n > MaxClock THEN MaxClock ELSE n

InitState ==
    /\ file_infos = EmptyDict
    /\ deleted = {}
    /\ last = NoEvent
    /\ main_pc = "start_cpu"
    /\ scan_todo = <<>>
    /\ result = EmptyDict
    /\ observer = "none"
    /\ cpu_pc = "unstarted"
    /\ mem_pc = "unstarted"
    /\ disk_pc = "unstarted"
    /\ last_reading_time = 0
    /\ root_handlers = "none"
    /\ last_log = NoLog

\* the initial scan is recorded only in the specification that observes it
NoScan == [on |-> TRUE, listing |-> {}, seen |-> EmptyDict]
ScanUnobserved == [NoScan EXCEPT !.on = FALSE]
RecordScan(s) == IF scanned.on THEN s ELSE scanned

\* no call of file_entropy on its own
NoMeasure == [t |-> [i \in 1..5 |-> Absent], done |-> FALSE, value |-> 0]

Init ==
    /\ InitState
    /\ polls = Unobserved
    /\ config = DefaultConfig
    /\ scanned = ScanUnobserved
    /\ measured = NoMeasure

\* ------------------------------------------------------------ logging
\* logging.info / warning / error of the module: a root logger that has no
\* handler yet is first given a stderr handler by basicConfig()
AfterLogCall(handlers) == IF handlers = "none" THEN "stderr" ELSE handlers

\* logging.basicConfig(filename=...) does nothing when the root logger
\* already has a handler
BasicConfig(handlers) == IF handlers = "none" THEN "file" ELSE handlers

\* a thread logs an anomaly record (warning or error)
LogAnomaly(source) ==
    /\ root_handlers' = AfterLogCall(root_handlers)
    /\ last_log' = [source |-> source, sink |-> AfterLogCall(root_handlers)]

\* ------------------------------------------------------------ IronDome.run
StartCpu ==
    /\ main_pc = "start_cpu"
    /\ cpu_pc' = "sample"
    /\ main_pc' = "start_mem"
    /\ UNCHANGED <<store_vars, scan_vars, input_vars, observer, mem_pc, disk_pc,
                   last_reading_time, log_vars, polls>>

StartMem ==
    /\ main_pc = "start_mem"
    /\ mem_pc' = "sample"
    /\ main_pc' = "start_disk"
    /\ UNCHANGED <<store_vars, scan_vars, input_vars, observer, cpu_pc, disk_pc,
                   last_reading_time, log_vars, polls>>

\* a run() that does not start the disk thread
StartDiskSkipped ==
    /\ main_pc = "start_disk"
    /\ main_pc' = "configure"
    /\ UNCHANGED <<store_vars, scan_vars, input_vars, observer, probe_vars, log_vars>>

StartDisk ==
    /\ main_pc = "start_disk"
    /\ disk_pc' = "init"
    /\ main_pc' = "configure"
    /\ UNCHANGED <<store_vars, scan_vars, input_vars, observer, cpu_pc, mem_pc,
                   last_reading_time, log_vars, polls>>

ConfigureLog ==
    /\ main_pc = "configure"
    /\ root_handlers' = BasicConfig(root_handlers)
    /\ main_pc' = "walk"
    /\ UNCHANGED <<store_vars, scan_vars, input_vars, observer, probe_vars, last_log>>

\* os.walk visits the root before its sub-directories
WalkOrder == <<"/w/f.txt", "/w/g.log", "/w/sub/f.txt">>

RECURSIVE Filter(_, _)
Filter(seq, keep) ==
    IF seq = <<>> THEN <<>>
    ELSE IF Head(seq) \in keep THEN <<Head(seq)>> \o Filter(Tail(seq), keep)
    ELSE Filter(Tail(seq), keep)

\* fnmatch.filter(files, pattern) on the files of one directory
Filtered(listing, root_path, pattern) ==
    {p \in listing : DirName(p) = root_path /\ fnmatch(BaseName(p), pattern)}

\* lines 90-93 for one directory: the files kept for each pattern in turn, so
\* a file is visited once for every pattern it matches
RECURSIVE ForPatterns(_, _, _)
ForPatterns(listing, root_path, i) ==
    IF i > Len(patterns) THEN <<>>
    ELSE Filter(WalkOrder, Filtered(listing, root_path, patterns[i]))
            \o ForPatterns(listing, root_path, i + 1)

\* line 89: every directory of the walk
RECURSIVE ForDirs(_, _, _)
ForDirs(listing, dirs, i) ==
    IF i > Len(dirs) THEN <<>>
    ELSE ForPatterns(listing, dirs[i], 1) \o ForDirs(listing, dirs, i + 1)

\* FileModEventHandler.__init__ enters __init_file_infos: the walk lists the
\* files that are under the root
ScanBegin(P) ==
    /\ main_pc = "walk"
    /\ \E listing \in SUBSET P :
          /\ scan_todo' = ForDirs(listing, walk(monitoring_path), 1)
          /\ scanned' = RecordScan([scanned EXCEPT !.listing = listing])
    /\ result' = EmptyDict
    /\ main_pc' = "scan"
    /\ UNCHANGED <<store_vars, observer, probe_vars, log_vars, input_vars>>

\* line 94 for one file; an exception leaves run() before its try block
ScanFile(T) ==
    /\ main_pc = "scan"
    /\ scan_todo # <<>>
    /\ \E t \in T :
          LET filepath == Head(scan_todo)
              e == file_entropy(t)
              m == get_mime(t)
          IN  IF e = RAISED \/ m = RAISED_MIME
              THEN /\ main_pc' = "crashed"
                   /\ UNCHANGED scan_vars
              ELSE /\ result' = Set(result, filepath, FileInfo(e, m))
                   /\ scan_todo' = Tail(scan_todo)
                   /\ scanned' = RecordScan([scanned EXCEPT
                                    !.seen = Set(scanned.seen, filepath, t)])
                   /\ main_pc' = "scan"
    /\ UNCHANGED <<store_vars, observer, probe_vars, log_vars, input_vars>>

ScanEnd ==
    /\ main_pc = "scan"
    /\ scan_todo = <<>>
    /\ file_infos' = result
    /\ result' = EmptyDict      \* the local dictionary is gone at the return
    /\ main_pc' = "schedule"
    /\ UNCHANGED <<deleted, last, scan_todo, scanned, observer, probe_vars, log_vars,
                   input_vars>>

Schedule ==
    /\ main_pc = "schedule"
    /\ observer' = "scheduled"
    /\ main_pc' = "observer_start"
    /\ UNCHANGED <<store_vars, scan_vars, input_vars, probe_vars, log_vars>>

\* an observer that is started before the handler is constructed
ObserverStartPcEarly == {"walk", "scan", "observer_start"}

ObserverStartPc == {"observer_start"}

ObserverStart ==
    /\ main_pc \in ObserverStartPc
    /\ observer' = "running"
    /\ main_pc' = IF main_pc = "observer_start" THEN "idle" ELSE main_pc
    /\ UNCHANGED <<store_vars, scan_vars, input_vars, probe_vars, log_vars>>

\* the shutdown signal interrupts time.sleep(SLEEP_TIME)
Interrupt ==
    /\ main_pc = "idle"
    /\ main_pc' = "stop"
    /\ UNCHANGED <<store_vars, scan_vars, input_vars, observer, probe_vars, log_vars>>

ObserverStop ==
    /\ main_pc = "stop"
    /\ observer' = "stopped"
    /\ main_pc' = "join"
    /\ UNCHANGED <<store_vars, scan_vars, input_vars, probe_vars, log_vars>>

ObserverJoin ==
    /\ main_pc = "join"
    /\ observer' = "joined"
    /\ main_pc' = "done"
    /\ UNCHANGED <<store_vars, scan_vars, input_vars, probe_vars, log_vars>>

\* ------------------------------------------------------------ the probes
CpuSamples == {5, 10, 50}
MemSamples == {50, 100, 150}
Readings == {50 * k : k \in 0..MaxTicks}

\* one turn of the loop of __cpu_check: the one-second sample, then the warning
\* and the start of the ten-second sleep
CpuSample ==
    /\ cpu_pc = "sample"
    /\ \E cpu \in CpuSamples :
          IF cpu > CPU_LIMIT
          THEN /\ LogAnomaly("cpu")
               /\ cpu_pc' = "sleep"
               /\ polls' = Record([polls EXCEPT
                      !.cpu_last = cpu, !.cpu_logged = TRUE, !.cpu_warned = TRUE,
                      !.cpu_wait = 0,
                      !.cpu_gap = IF polls.cpu_warned
                                  THEN Clock(polls.cpu_wait + CPU_WINDOW) ELSE 0])
          ELSE /\ cpu_pc' = "sample"
               /\ UNCHANGED log_vars
               /\ polls' = Record([polls EXCEPT
                      !.cpu_last = cpu, !.cpu_logged = FALSE,
                      !.cpu_wait = Clock(polls.cpu_wait + CPU_WINDOW)])
    /\ UNCHANGED <<store_vars, main_pc, scan_vars, input_vars, observer, mem_pc, disk_pc,
                   last_reading_time>>

\* a loop that does not sleep after its warning
CpuWakeAtOnce ==
    /\ cpu_pc = "sleep"
    /\ cpu_pc' = "sample"
    /\ UNCHANGED <<store_vars, main_pc, scan_vars, input_vars, observer, mem_pc, disk_pc,
                   last_reading_time, log_vars, polls>>

\* the end of time.sleep(10)
CpuWake ==
    /\ cpu_pc = "sleep"
    /\ cpu_pc' = "sample"
    /\ polls' = Record([polls EXCEPT !.cpu_wait = Clock(polls.cpu_wait + CPU_COOLDOWN)])
    /\ UNCHANGED <<store_vars, main_pc, scan_vars, input_vars, observer, mem_pc, disk_pc,
                   last_reading_time, log_vars>>

MemSample ==
    /\ mem_pc = "sample"
    /\ \E mem \in MemSamples :
          IF mem > MEM_LIMIT
          THEN LogAnomaly("mem")
          ELSE UNCHANGED log_vars
    /\ mem_pc' = "sleep"
    /\ UNCHANGED <<store_vars, main_pc, scan_vars, input_vars, observer, cpu_pc, disk_pc,
                   last_reading_time, polls>>

MemWake ==
    /\ mem_pc = "sleep"
    /\ mem_pc' = "sample"
    /\ UNCHANGED <<store_vars, main_pc, scan_vars, input_vars, observer, cpu_pc, disk_pc,
                   last_reading_time, log_vars, polls>>

\* __reading_time: the seventh field of the first line of /proc/diskstats, or 0
\* when it is not a decimal number.  A first line of fewer than seven fields
\* (SHORT_LINE, an empty file for one) has no index 6: IndexError.
NOT_DECIMAL == -1
SHORT_LINE == -2
reading_time(field) == IF field # NOT_DECIMAL THEN field ELSE 0

\* what the seventh field can read after a sample of prev: the counter does
\* not decrease
Fields(prev) == {r \in Readings : r >= prev} \cup {NOT_DECIMAL, SHORT_LINE}

\* the IndexError leaves __disk_check and ends its thread
DiskDies ==
    /\ disk_pc' = "dead"
    /\ UNCHANGED <<last_reading_time, log_vars, polls>>

DiskInit ==
    /\ disk_pc = "init"
    /\ \E field \in Fields(0) :
          IF field = SHORT_LINE
          THEN DiskDies
          ELSE /\ last_reading_time' = reading_time(field)
               /\ disk_pc' = "sample"
               /\ UNCHANGED <<log_vars, polls>>
    /\ UNCHANGED <<store_vars, main_pc, scan_vars, input_vars, observer, cpu_pc, mem_pc>>

\* a poll that also warns at the threshold
DiskSampleGE ==
    /\ disk_pc = "sample"
    /\ \E field \in Fields(last_reading_time) :
          IF field = SHORT_LINE
          THEN DiskDies
          ELSE LET new_reading_time == reading_time(field)
                   reading_time_diff == new_reading_time - last_reading_time
               IN  /\ IF reading_time_diff >= sleep_time * DISK_FACTOR
                      THEN LogAnomaly("disk")
                      ELSE UNCHANGED log_vars
                   /\ polls' = Record([polls EXCEPT
                          !.disk_polled = TRUE, !.disk_prev = last_reading_time,
                          !.disk_new = new_reading_time,
                          !.disk_logged = (reading_time_diff >= sleep_time * DISK_FACTOR)])
                   /\ last_reading_time' = new_reading_time
                   /\ disk_pc' = "sleep"
    /\ UNCHANGED <<store_vars, main_pc, scan_vars, input_vars, observer, cpu_pc, mem_pc>>

DiskSample ==
    /\ disk_pc = "sample"
    /\ \E field \in Fields(last_reading_time) :
          IF field = SHORT_LINE
          THEN DiskDies
          ELSE LET new_reading_time == reading_time(field)
                   reading_time_diff == new_reading_time - last_reading_time
               IN  /\ IF reading_time_diff > sleep_time * DISK_FACTOR
                      THEN /\ LogAnomaly("disk")
                           /\ polls' = Record([polls EXCEPT
                                  !.disk_polled = TRUE, !.disk_prev = last_reading_time,
                                  !.disk_new = new_reading_time, !.disk_logged = TRUE])
                      ELSE /\ UNCHANGED log_vars
                           /\ polls' = Record([polls EXCEPT
                                  !.disk_polled = TRUE, !.disk_prev = last_reading_time,
                                  !.disk_new = new_reading_time, !.disk_logged = FALSE])
                   /\ last_reading_time' = new_reading_time
                   /\ disk_pc' = "sleep"
    /\ UNCHANGED <<store_vars, main_pc, scan_vars, input_vars, observer, cpu_pc, mem_pc>>

DiskWake ==
    /\ disk_pc = "sleep"
    /\ disk_pc' = "sample"
    /\ UNCHANGED <<store_vars, main_pc, scan_vars, input_vars, observer, cpu_pc, mem_pc,
                   last_reading_time, log_vars, polls>>

\* ------------------------------------------------------------ the events
\* the observer thread hands one event to its handler; on_disk tells whether the
\* file of the event was there when the handler began and r is what the handler
\* did.  An exception that leaves the handler ends the observer thread.
Deliver(kind, src, dest, on_disk, r) ==
    /\ file_infos' = r.infos
    /\ last' = [kind |-> kind, src |-> src, dest |-> dest, before |-> file_infos,
                on_disk |-> on_disk, new |-> r.new, warnings |-> r.warnings,
                failed |-> r.failed, raised |-> r.raised]
    /\ observer' = IF r.raised THEN "dead" ELSE observer
    /\ IF r.warnings # {}
       THEN LogAnomaly("files")
       ELSE /\ root_handlers' = AfterLogCall(root_handlers)
            /\ UNCHANGED last_log
    /\ UNCHANGED <<main_pc, scan_vars, input_vars, probe_vars>>

Created(P, T) ==
    /\ observer = "running"
    /\ \E p \in P, t \in T :
          /\ Watched(p)
          /\ PathMatches(p)
          /\ Deliver("created", p, p, t[1].exists, on_created(file_infos, p, t))
          /\ deleted' = deleted \ {p}

Closed(P) ==
    /\ observer = "running"
    /\ \E p \in P :
          /\ Watched(p)
          /\ PathMatches(p)
          /\ Deliver("closed", p, p, FALSE, on_closed(file_infos, p))
          /\ UNCHANGED deleted

Deleted(P) ==
    /\ observer = "running"
    /\ \E p \in P :
          /\ Watched(p)
          /\ PathMatches(p)
          /\ Deliver("deleted", p, p, FALSE, on_deleted(file_infos, p))
          /\ deleted' = IF p \in Keys(file_infos) THEN deleted \cup {p} ELSE deleted

Modified(P, T) ==
    /\ observer = "running"
    /\ \E p \in P, t \in T :
          /\ Watched(p)
          /\ PathMatches(p)
          /\ Deliver("modified", p, p, t[1].exists, on_modified(file_infos, p, t))
          /\ UNCHANGED deleted

Moved(P, T) ==
    /\ observer = "running"
    /\ \E src \in P, dest \in P, t \in T :
          /\ src # dest
          /\ Watched(src) /\ Watched(dest)
          /\ PathMatches(src) \/ PathMatches(dest)
          /\ Deliver("moved", src, dest, t[1].exists, on_moved(file_infos, src, dest, t))
          /\ deleted' = deleted \ {dest}

\* ------------------------------------------------------------ specifications
\* the whole program, on two paths and files that do not change while a
\* handler reads them
RunPaths == {"/w/f.txt", "/w/g.log"}
RunFiles == Stable({Absent, Content(1000, UNKNOWN), Content(1101, "image/png")})

Startup(P, T) ==
    \/ StartCpu
    \/ StartMem
    \/ StartDisk
    \/ ConfigureLog
    \/ ScanBegin(P)
    \/ ScanFile(T)
    \/ ScanEnd
    \/ Schedule
    \/ ObserverStart

Events(P, T) ==
    \/ Created(P, T)
    \/ Closed(P)
    \/ Deleted(P)
    \/ Modified(P, T)
    \/ Moved(P, T)

Next ==
    \/ Startup(RunPaths, RunFiles)
    \/ Interrupt
    \/ ObserverStop
    \/ ObserverJoin
    \/ CpuSample
    \/ CpuWake
    \/ MemSample
    \/ MemWake
    \/ DiskInit
    \/ DiskSample
    \/ DiskWake
    \/ Events(RunPaths, RunFiles)

Spec == Init /\ [][Next]_vars

\* every thread that can take a step eventually takes one
FairSpec ==
    /\ Spec
    /\ WF_vars(CpuSample \/ CpuWake)
    /\ WF_vars(MemSample \/ MemWake)
    /\ WF_vars(DiskInit \/ DiskSample \/ DiskWake)
    /\ WF_vars(ObserverStop \/ ObserverJoin)

\* the file events alone, on every path, with a file that may change once
\* while a handler reads it; the probe threads are not scheduled
NextEvents ==
    \/ Startup(Paths, Timelines)
    \/ Events(Paths, Timelines)

SpecEvents == Init /\ [][NextEvents]_vars

\* the three probe threads from their start on, with their polls observed; the
\* main thread is not scheduled after it has configured the log
InitProbes ==
    /\ InitState
    /\ polls = NoPolls
    /\ config = DefaultConfig
    /\ scanned = ScanUnobserved
    /\ measured = NoMeasure

NextProbes ==
    \/ StartCpu
    \/ StartMem
    \/ StartDisk
    \/ ConfigureLog
    \/ CpuSample
    \/ CpuWake
    \/ MemSample
    \/ MemWake
    \/ DiskInit
    \/ DiskSample
    \/ DiskWake

SpecProbes == InitProbes /\ [][NextProbes]_vars

\* the start of run() for every configuration, with the initial scan observed;
\* the files do not change while the scan reads them
ConfigFiles == Stable(FileStates)

InitConfig ==
    /\ InitState
    /\ polls = Unobserved
    /\ config \in Configs
    /\ scanned = NoScan
    /\ measured = NoMeasure

SpecConfig == InitConfig /\ [][Startup(Paths, ConfigFiles)]_vars

\* file_entropy alone, on every file that changes at most once while it is read
MeasureInputs == {Race(a, b, k) : a \in FileStates, b \in FileStates, k \in 1..4}

InitMeasure ==
    /\ InitState
    /\ polls = Unobserved
    /\ config = DefaultConfig
    /\ scanned = ScanUnobserved
    /\ \E t \in MeasureInputs : measured = [t |-> t, done |-> FALSE, value |-> 0]

Measure ==
    /\ ~measured.done
    /\ measured' = [measured EXCEPT !.done = TRUE, !.value = file_entropy(measured.t)]
    /\ UNCHANGED <<store_vars, main_pc, scan_vars, observer, probe_vars, log_vars,
                   config>>

SpecMeasure == InitMeasure /\ [][Measure]_vars

\* ------------------------------------------------------------ properties
\* the last event compared an old baseline with a freshly measured one
Compared ==
    /\ last.kind \in {"modified", "moved"}
    /\ last.src \in Keys(last.before)
    /\ last.on_disk
    /\ ~last.raised

OldInfo == last.before[last.src]

\* C1: a Modified event on a tracked path whose file is there, once its handler
\* has returned, leaves the path mapped to the baseline the handler measured,
\* whatever warnings it logged.
C1_ModifiedReplacesBaseline ==
    (last.kind = "modified" /\ Compared) =>
        /\ last.new # NoInfo
        /\ last.src \in Keys(file_infos)
        /\ file_infos[last.src] = last.new
        /\ \A p \in Paths \ {last.src} :
              /\ (p \in Keys(file_infos)) = (p \in Keys(last.before))
              /\ p \in Keys(file_infos) => file_infos[p] = last.before[p]

C1_Witness ==
    /\ last.kind = "modified"
    /\ Compared
    /\ last.warnings = {"entropy", "mime"}
    /\ file_infos[last.src] = last.new
    /\ last.new # OldInfo

\* C2: when two baselines are compared the entropy warning is logged exactly
\* when the new entropy minus the old one is strictly above ENTROPY_LIMIT; a
\* rise above the limit with the type unchanged logs that one warning only.
C2_EntropyWarningIffAboveLimit ==
    Compared =>
        /\ ("entropy" \in last.warnings)
              <=> (last.new.entropy - OldInfo.entropy > ENTROPY_LIMIT)
        /\ (last.new.entropy - OldInfo.entropy > ENTROPY_LIMIT
              /\ last.new.mime = OldInfo.mime) => last.warnings = {"entropy"}

C2_Witness ==
    /\ Compared
    /\ last.new.entropy - OldInfo.entropy = ENTROPY_LIMIT
    /\ "entropy" \notin last.warnings

\* C3: when two baselines are compared the type warning is logged exactly when
\* the new type differs from the old one, whatever the entropy check did: alone
\* when the entropy is unchanged, with the entropy warning when both changed.
C3_MimeWarningIffTypeDiffers ==
    Compared =>
        /\ ("mime" \in last.warnings) <=> (last.new.mime # OldInfo.mime)
        /\ (last.new.mime # OldInfo.mime /\ last.new.entropy = OldInfo.entropy)
              => last.warnings = {"mime"}
        /\ (last.new.mime # OldInfo.mime
              /\ last.new.entropy - OldInfo.entropy > ENTROPY_LIMIT)
              => last.warnings = {"entropy", "mime"}

C3_Witness ==
    /\ Compared
    /\ last.kind = "moved"
    /\ last.new.mime # OldInfo.mime
    /\ last.new.entropy - OldInfo.entropy > ENTROPY_LIMIT
    /\ last.warnings = {"entropy", "mime"}

\* the last event was a move of a tracked path
MovedTracked == last.kind = "moved" /\ last.src \in Keys(last.before)

\* the warnings the anomaly rule gives for an old and a new baseline
RuleApplied(old, new) ==
    /\ ("entropy" \in last.warnings) <=> (new.entropy - old.entropy > ENTROPY_LIMIT)
    /\ ("mime" \in last.warnings) <=> (new.mime # old.mime)

\* C4 as claimed: after the move of a tracked path has been handled the source
\* is not in the store, the destination is, and the anomaly rule was applied to
\* the source's prior baseline and the destination's measured one.
C4_MoveAlwaysLeavesDest ==
    (MovedTracked /\ ~last.raised) =>
        /\ last.src \notin Keys(file_infos)
        /\ last.dest \in Keys(file_infos)
        /\ RuleApplied(OldInfo, file_infos[last.dest])

\* C4: after the move of a tracked path the source is not in the store.  When
\* the destination file is there and is measured, the destination maps to the
\* measured baseline and the anomaly rule was applied to the source's prior
\* baseline and the measured one (a rename with no content change leaves the
\* prior baseline and logs no warning); when the destination file is gone the
\* destination is not in the store either and no warning is logged; when
\* measuring fails the destination keeps the source's prior baseline.
C4_MoveCarriesBaseline ==
    MovedTracked =>
        /\ last.src \notin Keys(file_infos)
        /\ (last.on_disk /\ ~last.raised) =>
              /\ last.dest \in Keys(file_infos)
              /\ file_infos[last.dest] = last.new
              /\ RuleApplied(OldInfo, last.new)
              /\ last.new = OldInfo => last.warnings = {}
        /\ ~last.on_disk =>
              /\ last.dest \notin Keys(file_infos)
              /\ last.warnings = {}
        /\ last.raised =>
              /\ last.dest \in Keys(file_infos)
              /\ file_infos[last.dest] = OldInfo
              /\ last.warnings = {}

\* a rename with no content change onto a path that had another baseline
C4_Witness ==
    /\ MovedTracked
    /\ last.on_disk
    /\ ~last.raised
    /\ last.dest \in Keys(last.before)
    /\ last.before[last.dest] # OldInfo
    /\ last.before[last.dest].entropy < OldInfo.entropy - ENTROPY_LIMIT
    /\ file_infos[last.dest] = OldInfo
    /\ last.src \notin Keys(file_infos)
    /\ last.warnings = {}

\* C5: a Deleted event on a tracked path removes it, and as long as no Created
\* or MovedTo event names the path it stays out of the store; a Modified event
\* on it then changes no entry and logs no warning, even when the file is on
\* disk again.
C5_ModifiedAfterDeletedIsNoOp ==
    /\ \A p \in deleted : p \notin Keys(file_infos)
    /\ (last.kind = "deleted" /\ last.src \in Keys(last.before)) =>
          /\ last.src \in deleted
          /\ file_infos = Del(last.before, last.src)
    /\ (last.kind = "modified" /\ last.src \in deleted) =>
          /\ file_infos = last.before
          /\ last.warnings = {}
          /\ ~last.raised

C5_Witness ==
    /\ last.kind = "modified"
    /\ last.src \in deleted
    /\ last.on_disk
    /\ Keys(file_infos) # {}

\* C6 as claimed: a system call that fails in the handler of a Created, Modified
\* or MovedTo event removes the path from the store, no exception leaves the
\* handler and the observer goes on delivering events.
C6_IOFailureIsHandled ==
    (last.kind \in {"created", "modified", "moved"} /\ last.failed) =>
        /\ last.dest \notin Keys(file_infos)
        /\ ~last.raised
        /\ observer = "running"

\* the scan of __init_file_infos has been entered and has not returned
Scanning == main_pc \in {"walk", "scan"}
ScanReturned == main_pc \in {"schedule", "observer_start", "idle", "stop", "join", "done"}

\* C7: the observer is started only after the initial scan has returned: while
\* the scan runs no handler has run and the observer does not exist, and the
\* store is written by the scan's return before any handler writes it.
C7_ScanBeforeWatch ==
    /\ (Scanning \/ ~ScanReturned) =>
          /\ observer = "none"
          /\ last = NoEvent
          /\ file_infos = EmptyDict
    /\ observer # "none" => ScanReturned
    /\ last # NoEvent => ScanReturned

\* a handler has run on a store that the scan had seeded
C7_Witness ==
    /\ last.kind = "modified"
    /\ main_pc = "idle"
    /\ last.src \in Keys(last.before)
    /\ result = EmptyDict

AllProbesStarted ==
    cpu_pc # "unstarted" /\ mem_pc # "unstarted" /\ disk_pc # "unstarted"

C9_EveryAnomalyInFile ==
    last_log.source # "none" => last_log.sink = "file"

Shutdown == main_pc \in {"stop", "join", "done"}

\* C10 as claimed: after the shutdown signal the observer is stopped and joined
\* and every probe thread eventually ends.
C10_ProbesEventuallyExit ==
    Shutdown ~> (/\ observer = "joined"
                 /\ cpu_pc = "exited"
                 /\ mem_pc = "exited"
                 /\ disk_pc = "exited")

\* C11 as claimed: every key of the store matches one of the patterns.
C11_KeysMatchPatterns ==
    \A p \in Keys(file_infos) : PathMatches(p)

\* the last event was a Created, or a move of a path that was not tracked
FreshInsert ==
    \/ last.kind = "created"
    \/ last.kind = "moved" /\ last.src \notin Keys(last.before)

\* C12 as claimed: a Created event, and a move of an untracked path, map the
\* path (the destination) to the baseline just measured and log no warning,
\* and the move creates no entry for its source.
C12_FreshInsertSetsBaseline ==
    FreshInsert =>
        /\ last.new # NoInfo
        /\ last.dest \in Keys(file_infos)
        /\ file_infos[last.dest] = last.new
        /\ last.warnings = {}
        /\ last.kind = "moved" => last.src \notin Keys(file_infos)

\* C17: a Modified event on a tracked path whose file is gone when the handler
\* looks removes the path, logs no warning and leaves the other entries.
C17_ModifiedGoneRemoves ==
    (last.kind = "modified" /\ last.src \in Keys(last.before) /\ ~last.on_disk) =>
        /\ file_infos = Del(last.before, last.src)
        /\ last.warnings = {}
        /\ ~last.raised

C17_Witness ==
    /\ last.kind = "modified"
    /\ last.src \in Keys(last.before)
    /\ ~last.on_disk
    /\ last.src \notin Keys(file_infos)
    /\ Keys(file_infos) # {}

\* the last event is one the handler only logs
OnlyLogged ==
    \/ last.kind = "closed"
    \/ last.kind \in {"deleted", "modified"} /\ last.src \notin Keys(last.before)

\* C18: a Closed event, and a Deleted or a Modified event on a path that is not
\* tracked, leave the whole store as it was and log no warning.
C18_UntrackedEventsChangeNothing ==
    OnlyLogged =>
        /\ file_infos = last.before
        /\ last.warnings = {}
        /\ ~last.raised

C18_Witness ==
    /\ last.kind = "closed"
    /\ last.src \in Keys(file_infos)
    /\ file_infos = last.before

\* C13: at each poll the disk probe logs a warning exactly when the reading is
\* more than 100 times the poll interval above the previous reading, and the
\* reading of the poll becomes the previous reading of the next one whether
\* or not a warning was logged.
C13_DiskWarnsAboveThreshold ==
    polls.disk_polled =>
        /\ polls.disk_logged <=> (polls.disk_new - polls.disk_prev > 100 * sleep_time)
        /\ last_reading_time = polls.disk_new

C13_Witness ==
    /\ polls.disk_polled
    /\ polls.disk_new - polls.disk_prev = 150
    /\ polls.disk_logged
    /\ last_reading_time = polls.disk_new
    /\ disk_pc = "sleep"

\* C14: a CPU sample above the threshold logs a warning and the loop then
\* sleeps the cooldown before it samples again, so two consecutive warnings are
\* at least the cooldown and one sampling window apart; a sample at or below
\* the threshold logs nothing and the next sample follows at once.
C14_CpuCooldown ==
    /\ polls.cpu_gap # 0 => polls.cpu_gap >= CPU_COOLDOWN + CPU_WINDOW
    /\ polls.cpu_last # 0 =>
          /\ polls.cpu_logged <=> (polls.cpu_last > CPU_LIMIT)
          /\ ~polls.cpu_logged => cpu_pc = "sample"
    /\ cpu_pc = "sleep" => (polls.cpu_logged /\ polls.cpu_wait = 0)
    /\ (cpu_pc = "sample" /\ polls.cpu_logged) => polls.cpu_wait >= CPU_COOLDOWN

\* two warnings as close as they can be
C14_Witness ==
    /\ polls.cpu_gap = CPU_COOLDOWN + CPU_WINDOW
    /\ cpu_pc = "sleep"
    /\ last_log.source = "cpu"

\* C15 as claimed: no probe thread ends on its own.
C15_ProbesNeverEnd ==
    /\ cpu_pc # "dead"
    /\ mem_pc # "dead"
    /\ disk_pc # "dead"

\* C16 as claimed: file_entropy returns 0 and raises nothing when the file is
\* missing or empty at the existence check, at the size check or at the read
\* of its bytes.
C16_MissingOrEmptyMeasuresZero ==
    (/\ measured.done
     /\ \A i \in 2..4 : measured.t[i] # Locked
     /\ \/ \E i \in 2..4 : ~measured.t[i].exists
        \/ measured.t[3].size = 0
        \/ measured.t[4].size = 0)
        => measured.value = 0

\* C19: when the initial scan has returned, the keys of the store are exactly
\* the listed files whose name matches one of the patterns, whatever their
\* depth, and each is mapped to the entropy and the type read for it during
\* the scan.
C19_ScanSeedsStore ==
    main_pc = "schedule" =>
        /\ Keys(file_infos) = {p \in scanned.listing : PathMatches(p)}
        /\ \A p \in Keys(file_infos) :
              /\ p \in Keys(scanned.seen)
              /\ file_infos[p] = FileInfo(file_entropy(scanned.seen[p]),
                                          get_mime(scanned.seen[p]))
              /\ file_infos[p].entropy # RAISED
              /\ file_infos[p].mime # RAISED_MIME

\* two patterns that both match the two .txt files, one of them in a
\* sub-directory, and a listed file that matches none
C19_Witness ==
    /\ main_pc = "schedule"
    /\ Len(patterns) = 2
    /\ scanned.listing = Paths
    /\ Keys(file_infos) = {"/w/f.txt", "/w/sub/f.txt"}
    /\ file_infos["/w/f.txt"] # file_infos["/w/sub/f.txt"]

\* C20 as claimed: the watch is recursive exactly when the root the user
\* supplied is a directory, and with a file as the root no file of a
\* sub-directory of its parent is tracked.
C20_RecursiveIffRootIsDirectory ==
    main_pc \in {"schedule", "observer_start", "idle"} =>
        /\ recursive <=> isdir(config.dir_path)
        /\ isfile(config.dir_path) =>
              \A p \in Keys(file_infos) : DirName(p) = monitoring_path

====
